---------------------------- MODULE Spec2Model ----------------------------
(***************************************************************************)
(* Argon2 (RFC 9106) engine of noble-hashes: option validation, memory     *)
(* layout and seeding, the fill loop of the blocking and of the            *)
(* cooperative entry point, the indexing rule, H' and finalization.        *)
(*                                                                         *)
(* Numbers.  TLC's integers are 32-bit signed, the program's numbers are   *)
(* JavaScript doubles that hold every integer below 2^53 exactly.  A       *)
(* number that may reach 2^31 is therefore kept as a pair <<hi, lo>> that  *)
(* stands for hi * 2^16 + lo, with 0 <= lo < 2^16 ("wide number").  A      *)
(* 32-bit word is the wide number with hi < 2^16.                          *)
(*                                                                         *)
(* Blocks.  The content of a 1024-byte block is abstracted to a token, a   *)
(* bit vector of TokBits bits; the all-zero block is token 0 and XOR of    *)
(* blocks is XOR of tokens.  BLAKE2b and the permutation P are modelled as *)
(* fixed deterministic functions on tokens (P a bijection that fixes 0).   *)
(***************************************************************************)
EXTENDS Integers, Naturals, Sequences, FiniteSets, TLC

(***************************************************************************)
(* Wide numbers                                                            *)
(***************************************************************************)
Half == 2 ^ 16

W(n) == <<n \div Half, n % Half>>

WInt(a) == a[1] * Half + a[2]

WLt(a, b) == a[1] < b[1] \/ (a[1] = b[1] /\ a[2] < b[2])

WLe(a, b) == a = b \/ WLt(a, b)

WAdd(a, b) == <<a[1] + b[1] + ((a[2] + b[2]) \div Half), (a[2] + b[2]) % Half>>

\* a - b for b <= a
WSub(a, b) ==
  IF a[2] >= b[2] THEN <<a[1] - b[1], a[2] - b[2]>>
                  ELSE <<a[1] - b[1] - 1, a[2] + Half - b[2]>>

\* Math.imul on two 16-bit operands: the 32-bit pattern of x * y
imul(x, y) ==
  LET t  == (x \div 256) * y
      u  == (x % 256) * y
      lo == (t % 256) * 256 + (u % Half)
  IN  <<((t \div 256) + (u \div Half) + (lo \div Half)) % Half, lo % Half>>

\* the exact product of two wide numbers
WMul(a, b) ==
  LET ll == imul(a[2], b[2])
  IN  <<a[1] * b[1] * Half + a[1] * b[2] + a[2] * b[1] + ll[1], ll[2]>>

\* a number below 2^31 is divided as it is; a larger one is halved first:
\* with a = 2 * a2 + b, a2 = q * d + r, the quotient of a is 2 * q, plus 1
\* when d <= 2 * r + b
WFits(a) == a[1] < Half \div 2

WHalf(a) == <<a[1] \div 2, (a[1] % 2) * (Half \div 2) + (a[2] \div 2)>>

WDouble(qr, b, d) ==
  LET q2 == WAdd(qr[1], qr[1])
      r2 == WAdd(WAdd(qr[2], qr[2]), <<0, b>>)
  IN  IF WLe(d, r2) THEN <<WAdd(q2, <<0, 1>>), WSub(r2, d)>> ELSE <<q2, r2>>

RECURSIVE WDivMod(_, _)
WDivMod(a, d) ==
  IF WFits(a)
    THEN IF WFits(d) THEN <<W(WInt(a) \div WInt(d)), W(WInt(a) % WInt(d))>>
                     ELSE <<W(0), a>>
    ELSE WDouble(WDivMod(WHalf(a), d), a[2] % 2, d)

\* Math.floor(a / d) for d > 0
WDiv(a, d) == WDivMod(a, d)[1]

\* storing a number into a Uint32Array element: the value modulo 2^32
ToUint32(a) == <<a[1] % Half, a[2]>>

(***************************************************************************)
(* Option validation: isUint32, initOpts, and the part of argon2Init that  *)
(* runs before the matrix B is allocated.                                  *)
(***************************************************************************)
maxUint32 == <<65536, 0>>

\* isUint32 without the upper limit
isUint32NoLimit(num) == WLe(<<0, 0>>, num)

isUint32(num) == WLe(<<0, 0>>, num) /\ WLt(num, maxUint32)

ARGON2_SYNC_POINTS == 4

AT == [Argond2d |-> 0, Argon2i |-> 1, Argon2id |-> 2]

ATValues == {AT.Argond2d, AT.Argon2i, AT.Argon2id}

\* an option is the empty set when it is not supplied, {value} when it is
Given(o, default) == IF o = {} THEN default ELSE CHOOSE v \in o : TRUE

NoError == "none"

initOpts(opts) ==
  LET merged == [t |-> opts.t, m |-> opts.m, p |-> opts.p,
                 key |-> opts.key, personalization |-> opts.personalization,
                 onProgress |-> opts.onProgress,
                 version   |-> Given(opts.version, 19),
                 dkLen     |-> Given(opts.dkLen, W(32)),
                 maxmem    |-> Given(opts.maxmem, <<65535, 65535>>),
                 asyncTick |-> Given(opts.asyncTick, 10),
                 err |-> NoError]
      dkLen == merged.dkLen
      p == merged.p
      m == merged.m
      t == merged.t
      err ==
        IF ~isUint32(dkLen) \/ WLt(dkLen, W(4)) THEN "dkLen should be at least 4 bytes"
        ELSE IF ~isUint32(p) \/ WLt(p, W(1)) \/ WLe(<<256, 0>>, p)
          THEN "p (parallelism) should be at least 1 and less than 2^24"
        ELSE IF ~isUint32(m) THEN "m should be 0 <= m < 2^32"
        ELSE IF ~isUint32(t) \/ WLt(t, W(1))
          THEN "t (iterations) should be at least 1 and less than 2^32"
        ELSE IF merged.onProgress = "notfn" THEN "progressCb should be function"
        ELSE IF ~isUint32(m) \/ WLt(m, WMul(W(8), p))
          THEN "memory should be at least 8*p bytes"
        ELSE IF merged.version # 16 /\ merged.version # 19 THEN "unknown version"
        ELSE NoError
  IN  [merged EXCEPT !.err = err]

\* lines 526-568, o what initOpts returns
argon2InitChecks(password, salt, type, o) ==
  LET key == Given(o.key, <<0, 0>>)
      personalization == Given(o.personalization, <<0, 0>>)
      p == o.p
      mP == WMul(WMul(W(4), p), WDiv(o.m, WMul(W(ARGON2_SYNC_POINTS), p)))
      laneLen == WDiv(mP, p)
      segmentLen == WDiv(laneLen, W(ARGON2_SYNC_POINTS))
      memUsed == WMul(mP, W(256))
      none == [err |-> NoError, o |-> o, h0in |-> <<>>, mP |-> <<0, 0>>,
               laneLen |-> <<0, 0>>, segmentLen |-> <<0, 0>>, memUsed |-> <<0, 0>>]
  IN  IF ~isUint32(password) THEN [none EXCEPT !.err = "password should be less than 4 GB"]
      ELSE IF ~isUint32(salt) \/ WLt(salt, W(8))
        THEN [none EXCEPT !.err = "salt should be at least 8 bytes and less than 4 GB"]
      ELSE IF type \notin ATValues THEN [none EXCEPT !.err = "invalid argon2 type"]
      ELSE IF o.err # NoError THEN [none EXCEPT !.err = o.err]
      ELSE IF ~isUint32(o.maxmem) \/ WLt(o.maxmem, memUsed)
        THEN [none EXCEPT !.err = "mem should be less than 2**32", !.mP = mP,
                          !.memUsed = memUsed]
      ELSE [err |-> NoError, o |-> o,
            h0in |-> <<p, o.dkLen, o.m, o.t, W(o.version), W(type),
                       ToUint32(password), ToUint32(salt), ToUint32(key),
                       ToUint32(personalization)>>,
            mP |-> mP, laneLen |-> laneLen, segmentLen |-> segmentLen,
            memUsed |-> memUsed]

\* argon2Init up to and including the memory check (the state at line 570)
argon2InitCheck(password, salt, type, opts) ==
  argon2InitChecks(password, salt, type, initOpts(opts))

(***************************************************************************)
(* Block contents                                                          *)
(***************************************************************************)
TokBits == 3

TokCount == 2 ^ TokBits

Tok == 0 .. (TokCount - 1)

Bit(x, i) == (x \div (2 ^ i)) % 2

RECURSIVE XorRec(_, _, _)
XorRec(a, b, i) ==
  IF i < 0 THEN 0 ELSE ((Bit(a, i) + Bit(b, i)) % 2) * (2 ^ i) + XorRec(a, b, i - 1)

\* x ^ y on block contents
Xor(a, b) == XorRec(a, b, TokBits - 1)

RotL(x, n) == ((x * (2 ^ n)) % TokCount) + (x \div (2 ^ (TokBits - n)))

\* the 16-bit number that repeats the bits of tok from bit 0 upwards
Rep16(tok) ==
  LET k == (16 + TokBits - 1) \div TokBits
  IN  (tok * (((TokCount ^ k) - 1) \div (TokCount - 1))) % Half

\* the i-th 32-bit word of a block: the block's token, rotated by i, repeated
\* over the 32 bits (bit j of the word is bit j % TokBits of the rotated token)
Word(tok, i) ==
  LET rt == RotL(tok, i % TokBits)
  IN  <<Rep16(RotL(rt, (TokBits - (16 % TokBits)) % TokBits)), Rep16(rt)>>

\* what a wide number contributes to a hash
Num(w) == (w[1] * 7 + w[2]) % 1021

RECURSIVE DigestRec(_, _, _)
DigestRec(s, lo, hi) ==
  IF lo > hi THEN 5
  ELSE IF lo = hi THEN ((s[lo] % 1021) * 3 + lo) % 251
  ELSE LET mid == (lo + hi) \div 2
       IN  (DigestRec(s, lo, mid) * 31 + DigestRec(s, mid + 1, hi) * 17 + 7) % 251

\* BLAKE2b, and every hash built on it: a fixed function of the bytes hashed
\* (given here as the sequence of the numbers they encode) to a token
blake2b(s) == DigestRec(s, 1, Len(s)) % TokCount

(***************************************************************************)
(* mul, the compression function block, H', indexAlpha                     *)
(***************************************************************************)
\* the 32-bit pattern of an int32
Pattern(a) == IF a >= 0 THEN W(a) ELSE <<Half + (a \div Half), a % Half>>

\* the int32 with the given 32-bit pattern (x | 0)
Int32(w) == IF w[1] >= Half \div 2 THEN (w[1] - Half) * Half + w[2] ELSE w[1] * Half + w[2]

\* u32 * u32 = u64, on 32-bit patterns
mul(a, b) ==
  LET aL == a[2]
      aH == a[1]
      bL == b[2]
      bH == b[1]
      ll == imul(aL, bL)
      hl == imul(aH, bL)
      lh == imul(aL, bH)
      hh == imul(aH, bH)
      clo == ll[1] + hl[2] + lh[2]
      carry == <<(lh[1] + (clo \div Half)) % Half, clo % Half>>
      hlo == hh[2] + hl[1] + carry[1]
  IN  [h |-> <<(hh[1] + (hlo \div Half)) % Half, hlo % Half>>,
       l |-> <<carry[2], ll[2]>>]

\* the rounds of P over the rows and columns of the 16x16 matrix A2_BUF
\* (lines 405-419): a bijection of the block contents that fixes the zero block
P(z) == RotL((z * 5) % TokCount, 1)

\* block without the A2_BUF.fill(0) of line 423
blockNoFill(x, y, out, needXor) ==
  LET R == P(Xor(x, y))
  IN  [out |-> IF needXor THEN Xor(out, Xor(R, Xor(x, y))) ELSE Xor(R, Xor(x, y)),
       A2_BUF |-> R]

\* block that assigns to out whatever needXor is
blockAssign(x, y, out, needXor) ==
  LET R == P(Xor(x, y))
  IN  [out |-> Xor(R, Xor(x, y)), A2_BUF |-> 0]

block(x, y, out, needXor) ==
  LET R == P(Xor(x, y))
  IN  [out |-> IF needXor THEN Xor(out, Xor(R, Xor(x, y))) ELSE Xor(R, Xor(x, y)),
       A2_BUF |-> 0]

\* typed arrays are given by element size and length; u8 and u32 are the views
u8(arr) == [arr EXCEPT !.elt = 1, !.length = arr.elt * arr.length]

u32(arr) == [arr EXCEPT !.elt = 4, !.length = (arr.elt * arr.length) \div 4]

\* lines 442-444: V replaced by its 64-byte digest
HpNext == [V \in Tok |-> blake2b(<<64, V>>)]

\* the loop of lines 441-446 and the last block of lines 447-448.  out: what
\* out.set has written so far, as <<position, byte count, content>>
\* the loop of lines 441-446 going on while dkLen - pos >= 64
RECURSIVE HpRestInclusive(_, _, _, _)
HpRestInclusive(dkLen, pos, V, out) ==
  IF dkLen - pos >= 64
    THEN HpRestInclusive(dkLen, pos + 32, HpNext[V], Append(out, <<pos, 32, HpNext[V]>>))
    ELSE Append(out, <<pos, dkLen - pos, blake2b(<<dkLen - pos, V>>)>>)

RECURSIVE HpRest(_, _, _, _)
HpRest(dkLen, pos, V, out) ==
  IF dkLen - pos > 64
    THEN HpRest(dkLen, pos + 32, HpNext[V], Append(out, <<pos, 32, HpNext[V]>>))
    ELSE Append(out, <<pos, dkLen - pos, blake2b(<<dkLen - pos, V>>)>>)

\* line 451
HpOut(dkLen, out) ==
  u32([elt |-> 1, length |-> dkLen, tok |-> blake2b([i \in DOMAIN out |-> out[i][3]]),
       chunks |-> out])

\* lines 435-438: V and the first block
HpFirst(dkLen, V) == HpOut(dkLen, HpRest(dkLen, 32, V, << <<0, 32, V>> >>))

\* Variable-Length Hash Function H'.  chunks: what out.set wrote; the fast path
\* returns the digest itself
Hp(A, dkLen) ==
  IF dkLen <= 64
    THEN [elt |-> 1, length |-> dkLen, tok |-> blake2b(<<dkLen, dkLen>> \o A),
          chunks |-> <<>>]
    ELSE HpFirst(dkLen, blake2b(<<64, dkLen>> \o A))

JsMod(a, n) == IF a >= 0 THEN a % n ELSE -((-a) % n)

\* indexAlpha whose area in the same lane counts the previous block in
indexAlphaWithPrev(r, s, laneLen, segmentLen, index, randL, sameLane) ==
  LET area ==
        IF r = 0
          THEN IF s = 0 THEN index
               ELSE IF sameLane THEN s * segmentLen + index
               ELSE s * segmentLen + (IF index = 0 THEN -1 ELSE 0)
          ELSE IF sameLane THEN laneLen - segmentLen + index
               ELSE laneLen - segmentLen + (IF index = 0 THEN -1 ELSE 0)
      startPos == IF r # 0 /\ s # ARGON2_SYNC_POINTS - 1 THEN (s + 1) * segmentLen ELSE 0
      rel == area - 1 - Int32(mul(Pattern(area), mul(randL, randL).h).h)
  IN  JsMod(startPos + rel, laneLen)

\* indexAlpha whose area in another lane counts the current slice in
indexAlphaWithSlice(r, s, laneLen, segmentLen, index, randL, sameLane) ==
  LET area ==
        IF r = 0
          THEN IF s = 0 THEN index - 1
               ELSE IF sameLane THEN s * segmentLen + index - 1
               ELSE (s + 1) * segmentLen + (IF index = 0 THEN -1 ELSE 0)
          ELSE IF sameLane THEN laneLen - segmentLen + index - 1
               ELSE laneLen + (IF index = 0 THEN -1 ELSE 0)
      startPos == IF r # 0 /\ s # ARGON2_SYNC_POINTS - 1 THEN (s + 1) * segmentLen ELSE 0
      rel == area - 1 - Int32(mul(Pattern(area), mul(randL, randL).h).h)
  IN  JsMod(startPos + rel, laneLen)

\* lines 466-471 with the area of the first segment one short
indexAlphaAreaShort(r, s, laneLen, segmentLen, index, sameLane) ==
  IF r = 0
    THEN IF s = 0 THEN index - 2
         ELSE IF sameLane THEN s * segmentLen + index - 1
         ELSE s * segmentLen + (IF index = 0 THEN -1 ELSE 0)
    ELSE IF sameLane THEN laneLen - segmentLen + index - 1
         ELSE laneLen - segmentLen + (IF index = 0 THEN -1 ELSE 0)

\* lines 465-471: the size of the reference set
indexAlphaArea(r, s, laneLen, segmentLen, index, sameLane) ==
  IF r = 0
    THEN IF s = 0 THEN index - 1
         ELSE IF sameLane THEN s * segmentLen + index - 1
         ELSE s * segmentLen + (IF index = 0 THEN -1 ELSE 0)
    ELSE IF sameLane THEN laneLen - segmentLen + index - 1
         ELSE laneLen - segmentLen + (IF index = 0 THEN -1 ELSE 0)

\* line 473: the relative position
indexAlphaRel(area, randL) == area - 1 - Int32(mul(Pattern(area), mul(randL, randL).h).h)

indexAlpha(r, s, laneLen, segmentLen, index, randL, sameLane) ==
  LET startPos == IF r # 0 /\ s # ARGON2_SYNC_POINTS - 1 THEN (s + 1) * segmentLen ELSE 0
      rel == indexAlphaRel(indexAlphaArea(r, s, laneLen, segmentLen, index, sameLane), randL)
  IN  JsMod(startPos + rel, laneLen)

argon2Output(B, p, laneLen, dkLen) ==
  LET RECURSIVE Acc(_, _)
      Acc(l, acc) == IF l >= p THEN acc ELSE Acc(l + 1, Xor(acc, B[laneLen * l + laneLen - 1]))
      B_final == Acc(0, 0)
  IN  [res |-> u8(Hp(<<B_final>>, dkLen)), B_final |-> 0]

(***************************************************************************)
(* State                                                                   *)
(***************************************************************************)
\* call 1 enters through argon2 (blocking), call 2 through argon2Async
Calls == {1, 2}

VARIABLES
  args,     \* args[c]: the arguments of call c: password, salt, type, opts
  call,     \* call[c]: the locals of call c (fields of Blank)
  A2_BUF,   \* the module-global temporary block buffer
  running,  \* the call that holds the single thread, 0 when none does
  probe     \* an argument tuple and what argon2Init's checks make of it

vars == <<args, call, A2_BUF, running, probe>>

\* the address triple [address, input, zero_block]; of the input block the
\* words 0, 2, ..., 12, the only ones the program writes
ZeroTriple ==
  [address |-> 0,
   input |-> [w0 |-> 0, w2 |-> 0, w4 |-> 0, w6 |-> 0, w8 |-> 0, w10 |-> 0, w12 |-> 0],
   zero |-> 0]

ZeroH0 == [h |-> 0, w16 |-> 0, w17 |-> 0]

NoBlock == [r |-> -1, s |-> -1, l |-> -1, index |-> -1, offset |-> -1, prev |-> -1,
            refBlock |-> -1, refLane |-> -1, needXor |-> FALSE]

Blank ==
  [pc |-> "new", err |-> NoError,
   type |-> 0, mP |-> 0, p |-> 0, t |-> 0, version |-> 0, laneLen |-> 0, lanes |-> 0,
   segmentLen |-> 0, dkLen |-> 0, asyncTick |-> 0,
   perBlock |-> [on |-> FALSE, totalBlock |-> 0, callbackPer |-> 0, blockCnt |-> 0],
   progress |-> [calls |-> 0, last |-> <<0, 1>>],
   H0 |-> ZeroH0, B |-> <<>>, B_final |-> 0, address |-> ZeroTriple,
   r |-> 0, s |-> 0, l |-> 0, index |-> 0, offset |-> 0, prev |-> 0,
   needXor |-> FALSE, dataIndependent |-> FALSE,
   ts |-> 0, diff |-> 0,
   ops |-> <<>>, last |-> NoBlock, stamp |-> <<>>, log |-> <<>>,
   out |-> [elt |-> 1, length |-> 0, tok |-> 0, chunks |-> <<>>]]

\* ops, last, stamp and log record what the call has done: ops the block
\* operations on B in order, last the block produced last, stamp[b] the pass
\* that wrote block b last (0 for a seeded block, -1 for none), log one entry
\* per call of processBlock: its arguments (given is the prev handed in), the
\* prev, pair (J1, J2) and reference it used, the blocks it read (x = B[prev],
\* y = B[refBlock], old = B[offset]) and wrote (new), and the address triple
\* before and after.
\* a frame is the locals of a call together with the global A2_BUF
Frame(k, buf) == [x \in DOMAIN k \cup {"A2_BUF"} |-> IF x = "A2_BUF" THEN buf ELSE k[x]]

Locals(f) == [x \in DOMAIN f \ {"A2_BUF"} |-> f[x]]

(***************************************************************************)
(* argon2Init                                                              *)
(***************************************************************************)
Max(a, b) == IF a >= b THEN a ELSE b

\* the content of block b after the loop of lines 572-581
FirstBlocks(h, mP, laneLen) ==
  [b \in 0 .. (mP - 1) |->
     IF b % laneLen = 0 THEN Hp(<<h, 0, b \div laneLen>>, 1024).tok
     ELSE IF b % laneLen = 1 THEN Hp(<<h, 1, b \div laneLen>>, 1024).tok
     ELSE 0]

\* lines 570-597, chk what the checks before them have settled
argon2InitFill(type, chk) ==
  IF chk.err # NoError THEN [Blank EXCEPT !.pc = "error", !.err = chk.err]
  ELSE
    LET p == WInt(chk.o.p)
        t == WInt(chk.o.t)
        mP == WInt(chk.mP)
        laneLen == WInt(chk.laneLen)
        segmentLen == WInt(chk.segmentLen)
        h == blake2b([i \in DOMAIN chk.h0in |-> Num(chk.h0in[i])])
        H0 == [h |-> h, w16 |-> 1, w17 |-> p - 1]
        totalBlock == t * ARGON2_SYNC_POINTS * p * segmentLen
    IN  [Blank EXCEPT
           !.type = type, !.mP = mP, !.p = p, !.t = t, !.version = chk.o.version,
           !.B = FirstBlocks(h, mP, laneLen),
           !.stamp = [b \in 0 .. (mP - 1) |-> IF b % laneLen < 2 THEN 0 ELSE -1],
           !.laneLen = laneLen, !.lanes = p, !.segmentLen = segmentLen,
           !.dkLen = WInt(chk.o.dkLen),
           !.perBlock = [on |-> chk.o.onProgress = "fn", totalBlock |-> totalBlock,
                         callbackPer |-> Max(totalBlock \div 10000, 1), blockCnt |-> 0],
           !.asyncTick = chk.o.asyncTick,
           !.H0 = [x \in DOMAIN H0 |-> 0]]

argon2Init(password, salt, type, opts) ==
  argon2InitFill(type, argon2InitCheck(password, salt, type, opts))

perBlock(f) ==
  IF ~f.perBlock.on THEN f
  ELSE LET blockCnt == f.perBlock.blockCnt + 1
       IN  IF blockCnt % f.perBlock.callbackPer = 0 \/ blockCnt = f.perBlock.totalBlock
             THEN [f EXCEPT !.perBlock.blockCnt = blockCnt,
                            !.progress = [calls |-> @.calls + 1,
                                          last |-> <<blockCnt, f.perBlock.totalBlock>>]]
             ELSE [f EXCEPT !.perBlock.blockCnt = blockCnt]

(***************************************************************************)
(* processBlock                                                            *)
(***************************************************************************)
\* the content of the input block of the address triple
InputBlock(input) ==
  IF input = ZeroTriple.input THEN 0
  ELSE 1 + (DigestRec(<<input.w0, input.w2, input.w4, input.w6, input.w8, input.w10,
                        input.w12>>, 1, 7) % (TokCount - 1))

\* address[256 + 12]++ and the two calls of block that refill the address block
\* the regeneration of the address block with the output of the first call of
\* block put in the zero block
NextAddressesIntoZero(address, buf) ==
  LET a == [address EXCEPT !.input.w12 = @ + 1]
      b1 == block(InputBlock(a.input), a.zero, a.zero, FALSE)
      b2 == block(a.address, b1.out, a.address, FALSE)
  IN  [address |-> [a EXCEPT !.address = b2.out, !.zero = b1.out], A2_BUF |-> b2.A2_BUF]

NextAddresses(address, buf) ==
  LET a == [address EXCEPT !.input.w12 = @ + 1]
      b1 == block(InputBlock(a.input), a.zero, a.address, FALSE)
      b2 == block(b1.out, a.zero, b1.out, FALSE)
  IN  [address |-> [a EXCEPT !.address = b2.out], A2_BUF |-> b2.A2_BUF]

WMod(w, n) == ((w[1] % n) * Half + w[2]) % n

\* lines 641-643
\* lines 641-643 with the lane taken from J2 in every segment
RefBlockAnyLane(l, r, s, index, laneLen, segmentLen, lanes, randL, randH) ==
  LET refLane == WMod(randH, lanes)
      refPos == indexAlpha(r, s, laneLen, segmentLen, index, randL, refLane = l)
  IN  [refLane |-> refLane, refBlock |-> laneLen * refLane + refPos, J |-> <<randL, randH>>]

RefBlock(l, r, s, index, laneLen, segmentLen, lanes, randL, randH) ==
  LET refLane == IF r = 0 /\ s = 0 THEN l ELSE WMod(randH, lanes)
      refPos == indexAlpha(r, s, laneLen, segmentLen, index, randL, refLane = l)
  IN  [refLane |-> refLane, refBlock |-> laneLen * refLane + refPos, J |-> <<randL, randH>>]

AddrPairs == 128

\* a read of block b of the typed array B: outside the array the words read
\* are undefined, which ^ takes as 0
Read(B, b) == IF b \in DOMAIN B THEN B[b] ELSE 0

\* a write of block b of the typed array B: outside the array nothing is written
Write(B, b, v) == IF b \in DOMAIN B THEN [B EXCEPT ![b] = v] ELSE B

\* the state after the call of block of line 645, b what block returns
processBlockStore(f, prev, gen, ref, b) ==
  [f EXCEPT
     !.B = Write(@, f.offset, b.out),
     !.address = gen.address,
     !.A2_BUF = b.A2_BUF,
     !.stamp = Write(@, f.offset, f.r),
     !.ops = Append(@, <<f.offset, prev, ref.refBlock, f.needXor>>),
     !.log = Append(@, [r |-> f.r, s |-> f.s, l |-> f.l, index |-> f.index,
                        offset |-> f.offset, given |-> f.prev, prev |-> prev,
                        refLane |-> ref.refLane, refBlock |-> ref.refBlock, J |-> ref.J,
                        needXor |-> f.needXor, dataIndependent |-> f.dataIndependent,
                        old |-> Read(f.B, f.offset), x |-> Read(f.B, prev),
                        y |-> Read(f.B, ref.refBlock),
                        new |-> b.out, before |-> f.address, after |-> gen.address]),
     !.last = [r |-> f.r, s |-> f.s, l |-> f.l, index |-> f.index,
               offset |-> f.offset, prev |-> prev, refBlock |-> ref.refBlock,
               refLane |-> ref.refLane, needXor |-> f.needXor]]

\* line 645, with prev, the address triple and the reference settled
processBlockWrite(f, prev, gen, ref) ==
  processBlockStore(f, prev, gen, ref,
    block(Read(f.B, prev), Read(f.B, ref.refBlock), Read(f.B, f.offset), f.needXor))

\* lines 626-643, with prev and the address triple settled
processBlockRef(f, prev, gen) ==
  LET i128 == f.index % AddrPairs
      src == IF f.dataIndependent THEN gen.address.address ELSE Read(f.B, prev)
      at == IF f.dataIndependent THEN 2 * i128 ELSE 0
  IN  processBlockWrite(f, prev, gen,
        RefBlock(f.l, f.r, f.s, f.index, f.laneLen, f.segmentLen, f.lanes,
                 Word(src, at), Word(src, at + 1)))

\* processBlock that regenerates the address block at index 0 only
processBlockGenAtStart(f) ==
  LET prev == IF f.offset % f.laneLen # 0 THEN f.offset - 1 ELSE f.prev
  IN  processBlockRef(f, prev,
        IF f.dataIndependent /\ f.index = 0
          THEN NextAddresses(f.address, f.A2_BUF)
          ELSE [address |-> f.address, A2_BUF |-> f.A2_BUF])

processBlock(f) ==
  LET prev == IF f.offset % f.laneLen # 0 THEN f.offset - 1 ELSE f.prev
  IN  processBlockRef(f, prev,
        IF f.dataIndependent /\ f.index % AddrPairs = 0
          THEN NextAddresses(f.address, f.A2_BUF)
          ELSE [address |-> f.address, A2_BUF |-> f.A2_BUF])

(***************************************************************************)
(* argon2: the blocking entry point.  The loop heads are one operator per  *)
(* loop; the call runs from its first line to its return in one step.      *)
(***************************************************************************)
\* lines 657-660
argon2Setup(k) ==
  [k EXCEPT !.address = [ZeroTriple EXCEPT !.input.w6 = k.mP, !.input.w8 = k.t,
                                           !.input.w10 = k.type],
            !.r = 0, !.pc = "r"]

\* lines 704-705
argon2Return(f) ==
  LET o == argon2Output(f.B, f.p, f.laneLen, f.dkLen)
  IN  [f EXCEPT !.address = ZeroTriple, !.B_final = o.B_final, !.out = o.res, !.pc = "done"]

\* lines 668-682: the head of the body of the loop over the lanes
argon2Lane(f) ==
  LET a == [f.address EXCEPT !.input.w2 = f.l, !.input.w12 = 0]
      first == f.r = 0 /\ f.s = 0
      startPos == IF first THEN 2 ELSE 0
      gen == IF first /\ f.dataIndependent THEN NextAddresses(a, f.A2_BUF)
                                           ELSE [address |-> a, A2_BUF |-> f.A2_BUF]
      offset == f.l * f.laneLen + f.s * f.segmentLen + startPos
      prev == IF offset % f.laneLen # 0 THEN offset - 1 ELSE offset + f.laneLen - 1
  IN  [f EXCEPT !.address = gen.address, !.A2_BUF = gen.A2_BUF, !.index = startPos,
                !.offset = offset, !.prev = prev]

\* the heads of the four loops (lines 661, 664, 667, 683); pc names the loop
\* whose head runs next
\* the head of the loop over the passes with needXor set for every version
argon2_rAnyVersion(f) ==
  IF f.r < f.t
    THEN [f EXCEPT !.needXor = (f.r # 0), !.address.input.w0 = f.r, !.s = 0, !.pc = "s"]
    ELSE argon2Return(f)

argon2_r(f) ==
  IF f.r < f.t
    THEN [f EXCEPT !.needXor = (f.r # 0 /\ f.version = 19),
                   !.address.input.w0 = f.r, !.s = 0, !.pc = "s"]
    ELSE argon2Return(f)

argon2_s(f) ==
  IF f.s < ARGON2_SYNC_POINTS
    THEN [f EXCEPT !.address.input.w4 = f.s,
                   !.dataIndependent =
                      (f.type = AT.Argon2i \/ (f.type = AT.Argon2id /\ f.r = 0 /\ f.s < 2)),
                   !.l = 0, !.pc = "l"]
    ELSE [f EXCEPT !.r = @ + 1, !.pc = "r"]

argon2_l(f) ==
  IF f.l < f.p THEN [argon2Lane(f) EXCEPT !.pc = "index"]
               ELSE [f EXCEPT !.s = @ + 1, !.pc = "s"]

\* the body of the innermost loop with the await of the cooperative entry in it
argon2_indexAwait(f) ==
  IF f.index < f.segmentLen
    THEN [processBlock(perBlock(f)) EXCEPT !.pc = "await"]
    ELSE [f EXCEPT !.l = @ + 1, !.pc = "l"]

argon2_index(f) ==
  IF f.index < f.segmentLen
    THEN LET g == processBlock(perBlock(f))
         IN  [g EXCEPT !.index = @ + 1, !.offset = @ + 1, !.prev = @ + 1]
    ELSE [f EXCEPT !.l = @ + 1, !.pc = "l"]

\* one loop head, or one pass through the body of the innermost loop
argon2Step(f) ==
  IF f.pc = "r" THEN argon2_r(f)
  ELSE IF f.pc = "s" THEN argon2_s(f)
  ELSE IF f.pc = "l" THEN argon2_l(f)
  ELSE IF f.pc = "index" THEN argon2_index(f)
  ELSE f

\* n steps.  The steps are taken in two halves, and the frame after the first
\* half is a bound variable, so that TLC evaluates it before the second half:
\* the evaluation is only as deep as the logarithm of n.
RECURSIVE argon2Steps(_, _)
argon2Steps(f, n) ==
  IF n = 0 THEN f
  ELSE IF n = 1 THEN argon2Step(f)
  ELSE CHOOSE g \in {argon2Steps(h, n - (n \div 2)) : h \in {argon2Steps(f, n \div 2)}} : TRUE

\* the loops of lines 661-703 and the return.  A pass takes its head, the exit
\* of the loop over s, 4 * (2 + p * (2 + segmentLen)) steps for the slices, and
\* the last head returns; a step after the return changes nothing.
argon2Loops(f) == argon2Steps(f, f.t * (f.mP + 8 * f.p + 10) + 1)

\* lines 657-705, k what argon2Init returns
argon2Run(k, buf) ==
  IF k.pc = "error" THEN Frame(k, buf) ELSE argon2Loops(Frame(argon2Setup(k), buf))

argon2(type, password, salt, opts, buf) ==
  argon2Run(argon2Init(password, salt, type, opts), buf)

(***************************************************************************)
(* argon2Async: the cooperative entry point.  The call stops at the head   *)
(* of the body of the innermost loop (pc = "body") and at its await        *)
(* (pc = "await").                                                         *)
(***************************************************************************)
\* lines 720-724
argon2AsyncSetup(k, now) ==
  [k EXCEPT !.address = [ZeroTriple EXCEPT !.input.w6 = k.mP, !.input.w8 = k.t,
                                           !.input.w10 = k.type],
            !.ts = now, !.r = 0, !.pc = "r"]

\* lines 774-775
argon2AsyncReturn(f) ==
  LET o == argon2Output(f.B, f.p, f.laneLen, f.dkLen)
  IN  [f EXCEPT !.address = ZeroTriple, !.B_final = o.B_final, !.out = o.res, !.pc = "done"]

\* lines 732-746
\* lines 732-746 with prev wrapping to the end of the slice, not of the lane
argon2AsyncLaneWrapSlice(f) ==
  LET a == [f.address EXCEPT !.input.w2 = f.l, !.input.w12 = 0]
      first == f.r = 0 /\ f.s = 0
      startPos == IF first THEN 2 ELSE 0
      gen == IF first /\ f.dataIndependent THEN NextAddresses(a, f.A2_BUF)
                                           ELSE [address |-> a, A2_BUF |-> f.A2_BUF]
      offset == f.l * f.laneLen + f.s * f.segmentLen + startPos
      prev == IF offset % f.laneLen # 0 THEN offset - 1 ELSE offset + f.segmentLen - 1
  IN  [f EXCEPT !.address = gen.address, !.A2_BUF = gen.A2_BUF, !.index = startPos,
                !.offset = offset, !.prev = prev]

argon2AsyncLane(f) ==
  LET a == [f.address EXCEPT !.input.w2 = f.l, !.input.w12 = 0]
      first == f.r = 0 /\ f.s = 0
      startPos == IF first THEN 2 ELSE 0
      gen == IF first /\ f.dataIndependent THEN NextAddresses(a, f.A2_BUF)
                                           ELSE [address |-> a, A2_BUF |-> f.A2_BUF]
      offset == f.l * f.laneLen + f.s * f.segmentLen + startPos
      prev == IF offset % f.laneLen # 0 THEN offset - 1 ELSE offset + f.laneLen - 1
  IN  [f EXCEPT !.address = gen.address, !.A2_BUF = gen.A2_BUF, !.index = startPos,
                !.offset = offset, !.prev = prev]

\* the heads of the four loops (lines 725, 728, 731, 747)
\* the head of the loop over the passes with needXor set for every version
argon2Async_rAnyVersion(f) ==
  IF f.r < f.t
    THEN [f EXCEPT !.needXor = (f.r # 0), !.address.input.w0 = f.r, !.s = 0, !.pc = "s"]
    ELSE argon2AsyncReturn(f)

argon2Async_r(f) ==
  IF f.r < f.t
    THEN [f EXCEPT !.needXor = (f.r # 0 /\ f.version = 19),
                   !.address.input.w0 = f.r, !.s = 0, !.pc = "s"]
    ELSE argon2AsyncReturn(f)

argon2Async_s(f) ==
  IF f.s < ARGON2_SYNC_POINTS
    THEN [f EXCEPT !.address.input.w4 = f.s,
                   !.dataIndependent =
                      (f.type = AT.Argon2i \/ (f.type = AT.Argon2id /\ f.r = 0 /\ f.s < 2)),
                   !.l = 0, !.pc = "l"]
    ELSE [f EXCEPT !.r = @ + 1, !.pc = "r"]

argon2Async_l(f) ==
  IF f.l < f.p THEN [argon2AsyncLane(f) EXCEPT !.pc = "index"]
               ELSE [f EXCEPT !.s = @ + 1, !.pc = "s"]

argon2Async_index(f) ==
  IF f.index < f.segmentLen THEN [f EXCEPT !.pc = "body"]
                            ELSE [f EXCEPT !.l = @ + 1, !.pc = "l"]

\* the loop heads, up to the next loop body or to the return
RECURSIVE argon2AsyncLoops(_)
argon2AsyncLoops(f) ==
  IF f.pc = "r" THEN argon2AsyncLoops(argon2Async_r(f))
  ELSE IF f.pc = "s" THEN argon2AsyncLoops(argon2Async_s(f))
  ELSE IF f.pc = "l" THEN argon2AsyncLoops(argon2Async_l(f))
  ELSE IF f.pc = "index" THEN argon2AsyncLoops(argon2Async_index(f))
  ELSE f

\* the increment of the innermost loop, and on to the next loop body or the return
argon2AsyncNext(f) ==
  argon2AsyncLoops([f EXCEPT !.index = @ + 1, !.offset = @ + 1, !.prev = @ + 1,
                             !.pc = "index"])

\* the test of line 766 without its diff >= 0
ShouldYieldForward(diff, asyncTick) == ~(diff < asyncTick)

\* line 766
ShouldYield(diff, asyncTick) == ~(diff >= 0 /\ diff < asyncTick)

\* lines 748-769, from the head of the loop body to the await or past the
\* if; now is what Date.now() returns
argon2AsyncTick(g, now) ==
  LET diff == now - g.ts
  IN  IF ShouldYield(diff, g.asyncTick)
        THEN [g EXCEPT !.pc = "await", !.diff = diff]
        ELSE argon2AsyncNext([g EXCEPT !.diff = diff])

argon2AsyncBody(f, now) == argon2AsyncTick(processBlock(perBlock(f)), now)

\* line 766 tested again when the await completes, with the diff it yielded on
argon2AsyncResumeRetest(f) ==
  IF ShouldYield(f.diff, f.asyncTick) THEN [f EXCEPT !.ts = @ + f.diff]
  ELSE argon2AsyncNext([f EXCEPT !.ts = @ + f.diff])

\* line 768 and on, when the await of line 767 completes
argon2AsyncResume(f) == argon2AsyncNext([f EXCEPT !.ts = @ + f.diff])

\* lines 720-747, k what argon2Init returns
argon2AsyncRun(k, buf, now) ==
  IF k.pc = "error" THEN Frame(k, buf)
  ELSE argon2AsyncLoops(Frame(argon2AsyncSetup(k, now), buf))

argon2Async(type, password, salt, opts, buf, now) ==
  argon2AsyncRun(argon2Init(password, salt, type, opts), buf, now)

(***************************************************************************)
(* Bounds and the arguments tried                                          *)
(***************************************************************************)
MaxT == 2

MaxLanes == 2

MaxSegmentLen == 3

MaxRem == 1

MaxClock == 1

Clock == 0 .. MaxClock

\* m is not a multiple of 4 * p: m' is m rounded down, segmentLen is MaxSegmentLen
MemChoices(p) == {4 * p * MaxSegmentLen + MaxRem}

DkLenChoices == {{}}

AsyncTickChoices == {{}, {1}}

Opts(t, m, p, version, dkLen, onProgress, asyncTick) ==
  [t |-> W(t), m |-> W(m), p |-> W(p), version |-> {version}, dkLen |-> dkLen,
   key |-> {}, personalization |-> {}, maxmem |-> {}, onProgress |-> onProgress,
   asyncTick |-> asyncTick]

ArgChoices ==
  {[c \in Calls |->
      [password |-> W(0), salt |-> W(8), type |-> type,
       opts |-> Opts(t, m, p, version, dkLen, onProgress[c], asyncTick)]] :
     type \in ATValues, version \in {16, 19}, t \in 1 .. MaxT,
     <<p, m>> \in {<<p, m>> \in (1 .. MaxLanes) \X (1 .. (4 * MaxLanes * MaxSegmentLen + MaxRem)) :
                       m \in MemChoices(p)},
     dkLen \in DkLenChoices, onProgress \in [Calls -> {"none", "fn"}],
     asyncTick \in AsyncTickChoices}

\* calls with one lane, one pass and a segment longer than the AddrPairs pairs
\* of an address block
LongSegmentLen == 129

LongChoices ==
  {[c \in Calls |->
      [password |-> W(0), salt |-> W(8), type |-> type,
       opts |-> Opts(1, 4 * LongSegmentLen, 1, 19, {}, "none", {})]] :
     type \in ATValues}

\* two calls of one lane and one pass that yield after every block for which
\* the clock has moved
PairChoices ==
  {[c \in Calls |->
      [password |-> W(0), salt |-> W(8), type |-> type[c],
       opts |-> Opts(1, 4 * MaxSegmentLen + MaxRem, 1, 19, {}, "none", {1})]] :
     type \in [Calls -> ATValues]}

\* calls with asyncTick 0, 1 or left out
LiveTickChoices == {{}, {0}, {1}}

LiveChoices ==
  {[c \in Calls |->
      [password |-> W(0), salt |-> W(8), type |-> type,
       opts |-> Opts(t, 4 * p * MaxSegmentLen + MaxRem, p, version, {}, "none", asyncTick)]] :
     type \in ATValues, version \in {16, 19}, t \in 1 .. MaxT, p \in 1 .. MaxLanes,
     asyncTick \in LiveTickChoices}

NoProbe == [kind |-> "none", in |-> <<>>, res |-> <<>>, done |-> TRUE]

(***************************************************************************)
(* The calls                                                               *)
(***************************************************************************)
\* what argon2 returns, and the state it leaves, for each argument tuple of
\* ArgChoices, LongChoices and PairChoices: a constant, so that TLC runs each
\* blocking call once.  The run
\* overwrites A2_BUF before it reads it; the table is taken with A2_BUF zero.
argon2Results ==
  {<<i, argon2(i.type, i.password, i.salt, i.opts, 0)>> :
     i \in UNION {{a[c] : c \in Calls} : a \in ArgChoices \cup LongChoices \cup PairChoices}}

argon2Call(i, buf) ==
  IF buf = 0 THEN (CHOOSE e \in argon2Results : e[1] = i)[2]
             ELSE argon2(i.type, i.password, i.salt, i.opts, buf)

Init ==
  /\ args \in ArgChoices
  /\ call = [c \in Calls |-> Blank]
  /\ A2_BUF = 0
  /\ running = 0
  /\ probe = NoProbe

Finish(c, f) ==
  /\ call' = [call EXCEPT ![c] = Locals(f)]
  /\ A2_BUF' = f.A2_BUF
  /\ running' = IF f.pc = "body" THEN c ELSE 0
  /\ UNCHANGED <<args, probe>>

\* a call of argon2d, argon2i or argon2id
Argon2Call(c) ==
  /\ c = 1
  /\ running = 0
  /\ call[c].pc = "new"
  /\ \E f \in {argon2Call(args[c], A2_BUF)} : Finish(c, f)

\* a call of argon2dAsync, argon2iAsync or argon2idAsync, up to its first loop body
Argon2AsyncStart(c) ==
  /\ running = 0
  /\ call[c].pc = "new"
  /\ \E now \in Clock :
       \E f \in {argon2Async(args[c].type, args[c].password, args[c].salt,
                             args[c].opts, A2_BUF, now)} : Finish(c, f)

Argon2AsyncCall(c) == c = 2 /\ Argon2AsyncStart(c)

\* one pass through the body of the innermost loop of argon2Async
Argon2AsyncBlock(c) ==
  /\ running = c
  /\ call[c].pc = "body"
  /\ \E now \in Clock :
       \E f \in {argon2AsyncBody(Frame(call[c], A2_BUF), now)} : Finish(c, f)

\* the host scheduler resumes the call
Argon2AsyncResume(c) ==
  /\ running = 0
  /\ call[c].pc = "await"
  /\ \E f \in {argon2AsyncResume(Frame(call[c], A2_BUF))} : Finish(c, f)

Next ==
  \E c \in Calls :
    \/ Argon2Call(c)
    \/ Argon2AsyncCall(c)
    \/ Argon2AsyncBlock(c)
    \/ Argon2AsyncResume(c)

Spec == Init /\ [][Next]_vars

\* two calls that may both be cooperative, each with its own type
InitOfPair ==
  /\ args \in PairChoices
  /\ call = [c \in Calls |-> Blank]
  /\ A2_BUF = 0
  /\ running = 0
  /\ probe = NoProbe

NextOfPair ==
  \E c \in Calls :
    \/ Argon2Call(c)
    \/ Argon2AsyncStart(c)
    \/ Argon2AsyncBlock(c)
    \/ Argon2AsyncResume(c)

SpecPair == InitOfPair /\ [][NextOfPair]_vars

\* the calls of Spec together with the calls on long segments
InitOfLong ==
  /\ args \in ArgChoices \cup LongChoices
  /\ call = [c \in Calls |-> Blank]
  /\ A2_BUF = 0
  /\ running = 0
  /\ probe = NoProbe

SpecLong == InitOfLong /\ [][Next]_vars

\* the cooperative call under a host that runs the code of the call that
\* holds the thread and resumes every call that waits at line 767
InitOfLive ==
  /\ args \in LiveChoices
  /\ call = [c \in Calls |-> Blank]
  /\ A2_BUF = 0
  /\ running = 0
  /\ probe = NoProbe

NextOfLive ==
  \E c \in Calls :
    \/ Argon2AsyncCall(c)
    \/ Argon2AsyncBlock(c)
    \/ Argon2AsyncResume(c)

\* weak fairness of Argon2AsyncBlock and strong fairness of Argon2AsyncResume,
\* with the guards of the two actions written out for their ENABLED: a step
\* of either action changes call[c]
Fairness ==
  \A c \in Calls :
    /\ \/ []<>~(running = c /\ call[c].pc = "body")
       \/ []<><<Argon2AsyncBlock(c)>>_vars
    /\ \/ <>[]~(running = 0 /\ call[c].pc = "await")
       \/ []<><<Argon2AsyncResume(c)>>_vars

SpecLive == InitOfLive /\ [][NextOfLive]_vars /\ Fairness

(***************************************************************************)
(* The checks of initOpts and argon2Init on their own: an argument tuple   *)
(* is drawn, and one step takes it through the checks that come before     *)
(* the matrix B is allocated.                                              *)
(***************************************************************************)
Two32 == <<65536, 0>>

Two24 == <<256, 0>>

LengthChoices == {W(0), Two32}

SaltChoices == {W(7), W(8), Two32}

TChoices == {W(0), W(1), Two32}

PChoices == {W(0), W(1), W(2), Two24}

MChoices == {W(7), W(8), W(15), W(16), <<64, 0>>, Two32}

TagChoices == {W(3), W(4), Two32}

VersionChoices == {{17}, {19}}

MaxmemChoices == {{}, {W(4096)}}

OptionalLengthChoices == {{}, {Two32}}

InitChoices ==
  {[password |-> password, salt |-> salt, type |-> AT.Argon2id,
    opts |-> [t |-> t, m |-> m, p |-> p, version |-> version, dkLen |-> {dkLen},
              key |-> key, personalization |-> personalization, maxmem |-> maxmem,
              onProgress |-> "none", asyncTick |-> {}]] :
     password \in LengthChoices, salt \in SaltChoices, t \in TChoices, p \in PChoices,
     m \in MChoices, dkLen \in TagChoices, version \in VersionChoices,
     maxmem \in MaxmemChoices, key \in OptionalLengthChoices,
     personalization \in OptionalLengthChoices}

InitOfChecks ==
  /\ probe \in {[kind |-> "init", in |-> i, res |-> <<>>, done |-> FALSE] : i \in InitChoices}
  /\ args = <<>>
  /\ call = [c \in Calls |-> Blank]
  /\ A2_BUF = 0
  /\ running = 0

\* argon2Init, from its first line to the allocation of B or to the throw
Argon2InitChecks ==
  /\ probe.kind = "init"
  /\ ~probe.done
  /\ probe' = [probe EXCEPT
                 !.res = argon2InitCheck(probe.in.password, probe.in.salt, probe.in.type,
                                         probe.in.opts),
                 !.done = TRUE]
  /\ UNCHANGED <<args, call, A2_BUF, running>>

NextOfChecks == Argon2InitChecks

SpecChecks == InitOfChecks /\ [][NextOfChecks]_vars

(***************************************************************************)
(* H' and argon2Output on their own: the XOR of the last blocks and a tag  *)
(* length are drawn, and one step produces the tag.                        *)
(***************************************************************************)
MaxDkLen == 132

OutputChoices == {[B_final |-> tok, dkLen |-> n] : tok \in Tok, n \in 1 .. MaxDkLen}

InitOfOutput ==
  /\ probe \in {[kind |-> "output", in |-> i, res |-> <<>>, done |-> FALSE] :
                  i \in OutputChoices}
  /\ args = <<>>
  /\ call = [c \in Calls |-> Blank]
  /\ A2_BUF = 0
  /\ running = 0

\* Hp on the accumulator, and argon2Output of a matrix of one lane whose last
\* block is the accumulator
Argon2Output ==
  /\ probe.kind = "output"
  /\ ~probe.done
  /\ probe' = [probe EXCEPT
                 !.res = [Hp |-> Hp(<<probe.in.B_final>>, probe.in.dkLen),
                          argon2Output |->
                            argon2Output([b \in 0 .. 0 |-> probe.in.B_final], 1, 1,
                                         probe.in.dkLen)],
                 !.done = TRUE]
  /\ UNCHANGED <<args, call, A2_BUF, running>>

NextOfOutput == Argon2Output

SpecOutput == InitOfOutput /\ [][NextOfOutput]_vars

(***************************************************************************)
(* Properties of the checks (under SpecChecks)                             *)
(***************************************************************************)
ChecksDone == probe.kind = "init" /\ probe.done

MemError == "mem should be less than 2**32"

\* the length of an optional input: zero when it is not supplied
LengthOf(o) == Given(o, <<0, 0>>)

\* C1: for every accepted (m, p) and every maxmem, if m' * 1024 > maxmem then
\* argon2Init fails with the memory-budget error (it throws at line 567, before
\* B is allocated at line 570).
C1_MemoryBudget ==
  (/\ ChecksDone
   /\ probe.res.err \in {NoError, MemError}
   /\ WLt(probe.res.o.maxmem, WMul(probe.res.mP, W(1024))))
    => probe.res.err = MemError

\* C4: a call is rejected whenever one of password, salt, key, personalization
\* is 2^32 bytes long or longer.
C4_InputTooLarge ==
  (/\ ChecksDone
   /\ \E len \in {probe.in.password, probe.in.salt, LengthOf(probe.in.opts.key),
                  LengthOf(probe.in.opts.personalization)} : WLe(Two32, len))
    => probe.res.err # NoError

\* C5: a call is rejected whenever p < 1 or p >= 2^24, t < 1 or t >= 2^32,
\* m < 8 * p or m >= 2^32, dkLen < 4 or dkLen >= 2^32, |salt| < 8, or version is
\* not 0x10 or 0x13; and a call with t = 1, m = 8 * p, dkLen = 4, |salt| = 8 and
\* an accepted p is accepted when m' * 1024 is within maxmem (the other
\* arguments being acceptable).
C5_ParameterValidation ==
  ChecksDone =>
    LET o == probe.in.opts
        dkLen == Given(o.dkLen, W(32))
        version == Given(o.version, 19)
        maxmem == Given(o.maxmem, <<65535, 65535>>)
    IN  /\ (\/ WLt(o.p, W(1)) \/ WLe(Two24, o.p)
            \/ WLt(o.t, W(1)) \/ WLe(Two32, o.t)
            \/ WLt(o.m, WMul(W(8), o.p)) \/ WLe(Two32, o.m)
            \/ WLt(dkLen, W(4)) \/ WLe(Two32, dkLen)
            \/ WLt(probe.in.salt, W(8))
            \/ version \notin {16, 19})
             => probe.res.err # NoError
        /\ (/\ o.t = W(1) /\ dkLen = W(4) /\ probe.in.salt = W(8)
            /\ WLe(W(1), o.p) /\ WLt(o.p, Two24)
            /\ o.m = WMul(W(8), o.p)
            /\ WLe(WMul(o.m, W(1024)), maxmem)
            /\ WLt(probe.in.password, Two32)
            /\ version \in {16, 19})
             => probe.res.err = NoError

\* a call with p = 2^24 and every other argument acceptable has been rejected
C5_Witness ==
  /\ ChecksDone
  /\ probe.in.opts.p = Two24 /\ probe.in.opts.t = W(1) /\ probe.in.opts.m = <<64, 0>>
  /\ probe.in.opts.dkLen = {W(4)} /\ probe.in.salt = W(8) /\ probe.in.password = W(0)
  /\ probe.in.opts.version = {19}
  /\ probe.res.err = "p (parallelism) should be at least 1 and less than 2^24"

(***************************************************************************)
(* Properties of H' and of the tag (under SpecOutput)                      *)
(***************************************************************************)
OutputDone == probe.kind = "output" /\ probe.done

\* the number of bytes a typed array covers
ByteLength(arr) == arr.elt * arr.length

\* C2: H'(x, n) delivers exactly n bytes for every n >= 1, and the tag that
\* argon2Output returns has exactly dkLen bytes.
C2_ExactLength ==
  OutputDone =>
    /\ ByteLength(probe.res.Hp) = probe.in.dkLen
    /\ ByteLength(probe.res.argon2Output.res) = probe.in.dkLen

\* C19: for dkLen <= 64, H' is one BLAKE2b call of output length dkLen over
\* LE32(dkLen) || input.  For dkLen > 64 it writes the first 32 bytes of each of
\* V1 .. Vr, r = ceil(dkLen / 32) - 2, V1 the 64-byte digest of
\* LE32(dkLen) || input and Vi the 64-byte digest of V(i-1), then one BLAKE2b
\* of Vr of output length dkLen - 32 * r, which is in 33 .. 64; the pieces are
\* written at consecutive positions and cover exactly 0 .. dkLen - 1.
C19_Chaining ==
  OutputDone =>
    LET n == probe.in.dkLen
        A == <<probe.in.B_final>>
        out == probe.res.Hp.chunks
        r == ((n + 31) \div 32) - 2
    IN  IF n <= 64
          THEN /\ out = <<>>
               /\ probe.res.Hp.tok = blake2b(<<n, n>> \o A)
               /\ probe.res.Hp.elt * probe.res.Hp.length = n
          ELSE /\ Len(out) = r + 1
               /\ out[1] = <<0, 32, blake2b(<<64, n>> \o A)>>
               /\ \A i \in 2 .. r : out[i] = <<32 * (i - 1), 32, blake2b(<<64, out[i - 1][3]>>)>>
               /\ out[r + 1] = <<32 * r, n - 32 * r, blake2b(<<n - 32 * r, out[r][3]>>)>>
               /\ n - 32 * r \in 33 .. 64
               /\ \A i \in 1 .. r : out[i + 1][1] = out[i][1] + out[i][2]
               /\ out[r + 1][1] + out[r + 1][2] = n

\* H' has been taken with dkLen = 129: three chained pieces and a tail of 33 bytes
C19_Witness ==
  /\ OutputDone
  /\ probe.in.dkLen = 129
  /\ Len(probe.res.Hp.chunks) = 4
  /\ probe.res.Hp.chunks[4][2] = 33

(***************************************************************************)
(* Properties of the calls (under Spec)                                    *)
(***************************************************************************)
\* C3: when onProgress is supplied, a call that has run to completion has
\* called it a last time with exactly 1.0: the block counter has reached
\* totalBlock.
C3_FinalProgress ==
  \A c \in Calls :
    (call[c].pc = "done" /\ call[c].perBlock.on) =>
      /\ call[c].perBlock.blockCnt = call[c].perBlock.totalBlock
      /\ call[c].progress.last = <<call[c].perBlock.totalBlock, call[c].perBlock.totalBlock>>

\* what the two calls are given, onProgress and asyncTick apart
Crypto(a) ==
  <<a.type, a.password, a.salt, a.opts.t, a.opts.m, a.opts.p, a.opts.dkLen,
    a.opts.version, a.opts.key, a.opts.personalization>>

\* C6: given the same type, password, salt, t, m, p, dkLen, version, key and
\* personalization, argon2 and argon2Async carry out the same sequence of block
\* operations (offset, prev, refBlock, needXor) and return the same output,
\* whatever asyncTick, the clock readings and onProgress are.
C6_SameOperations ==
  (/\ Crypto(args[1]) = Crypto(args[2])
   /\ call[1].pc = "done" /\ call[2].pc = "done")
    => /\ call[1].ops = call[2].ops
       /\ call[1].out = call[2].out

\* both calls have returned, the cooperative one after a clock reading below
\* its baseline, and only one of them was given onProgress
C6_Witness ==
  /\ call[1].pc = "done" /\ call[2].pc = "done"
  /\ Len(call[2].ops) > 0
  /\ call[2].diff < 0
  /\ call[1].perBlock.on # call[2].perBlock.on

\* values of J1 that spread the relative position over the reference area, and
\* values of J2
JChoices ==
  {<<J1, J2>> : J1 \in {<<4096 * k, 0>> : k \in {0, 8, 12, 15}} \cup {<<65535, 65535>>},
                J2 \in {<<0, 0>>, <<0, 1>>, <<65535, 65534>>}}

\* the position of block b in its lane, and its slice
Column(c, b) == b % call[c].laneLen

Slice(c, b) == Column(c, b) \div call[c].segmentLen

\* C7: for the block produced last (at r, l, s, index) and for every (J1, J2):
\* the chosen refBlock is not prev, is not offset, was written (seeded or
\* produced) before this block, and is not a block of the current slice that
\* this pass has not written yet.
C7_ReferenceWritten ==
  \A c \in Calls :
    call[c].last # NoBlock =>
      LET b == call[c].last
          refs == {RefBlock(b.l, b.r, b.s, b.index, call[c].laneLen, call[c].segmentLen,
                            call[c].lanes, J[1], J[2]).refBlock : J \in JChoices}
                    \cup {b.refBlock}
      IN  \A ref \in refs :
            /\ ref \in 0 .. (call[c].mP - 1)
            /\ ref # b.prev
            /\ ref # b.offset
            /\ call[c].stamp[ref] >= 0
            /\ Slice(c, ref) = b.s =>
                 /\ call[c].stamp[ref] = b.r
                 /\ ref \div call[c].laneLen = b.l => Column(c, ref) < Column(c, b.offset)

\* a block of the second pass has been produced from a block of another lane
C7_Witness ==
  \E c \in Calls :
    /\ call[c].last # NoBlock
    /\ call[c].last.r = 1
    /\ call[c].last.refLane # call[c].last.l

\* C8: after each produced block the call suspends exactly when now - ts is
\* outside [0, asyncTick), a reading below ts included; the baseline stays as
\* it is when the call goes on, and on resumption it has been advanced to the
\* reading taken at the yield.
C8_YieldRule ==
  [][\A c \in Calls :
       /\ (call[c].pc = "body" /\ call'[c] # call[c]) =>
            /\ (call'[c].pc = "await") <=>
                 ~(call'[c].diff >= 0 /\ call'[c].diff < call[c].asyncTick)
            /\ call[c].ts + call'[c].diff \in Clock
            /\ call'[c].pc # "await" => call'[c].ts = call[c].ts
       /\ (call[c].pc = "await" /\ call'[c] # call[c]) =>
            /\ call'[c].ts = call[c].ts + call[c].diff
            /\ call'[c].pc \in {"body", "done"}]_vars

\* the call is suspended after a clock reading below the baseline
C8_Witness ==
  \E c \in Calls : call[c].pc = "await" /\ call[c].diff < 0 /\ call[c].asyncTick > 1

\* C9: the blocking call never suspends between its start and its return; the
\* cooperative call suspends only at the decision that follows a complete
\* processBlock, never inside a block operation, argon2Init or argon2Output.
C9_SuspendOnlyBetweenBlocks ==
  [][/\ call'[1].pc \in {"new", "done", "error"}
     /\ call'[2].pc \in {"new", "body", "await", "done", "error"}
     /\ running' = 0 => call'[2].pc # "body"
     /\ (call'[2].pc = "await" /\ call[2].pc # "await") =>
          /\ call[2].pc = "body"
          /\ Len(call'[2].ops) = Len(call[2].ops) + 1
          /\ call'[2].stamp[call'[2].last.offset] = call'[2].last.r
          /\ A2_BUF' = 0]_vars

\* the cooperative call is suspended, and the blocking call has started and
\* returned meanwhile
C9_Witness ==
  /\ call[2].pc = "await"
  /\ call[1].pc = "done"
  /\ Len(call[2].ops) < Len(call[1].ops)

\* C10: when a call has returned its output, H0, the address triple, A2_BUF
\* and B_final are all zero.
C10_BuffersZeroed ==
  \A c \in Calls :
    call[c].pc = "done" =>
      /\ call[c].H0 = ZeroH0
      /\ call[c].address = ZeroTriple
      /\ call[c].B_final = 0
      /\ A2_BUF = 0

\* both calls have returned
C10_Witness ==
  /\ call[1].pc = "done" /\ call[2].pc = "done"
  /\ Len(call[1].ops) > 0 /\ Len(call[2].ops) > 0

(***************************************************************************)
(* Properties of the block operations (under Spec)                         *)
(***************************************************************************)
\* the entries of the log of call c
Entries(c) == {call[c].log[i] : i \in DOMAIN call[c].log}

\* G(X, Y) of the compression function: P(X xor Y) xor X xor Y
Compress(x, y) == Xor(P(Xor(x, y)), Xor(x, y))

\* what the block operation of entry e writes is the same whatever B[offset] held
OldIgnored(e) == \A o \in Tok : block(e.x, e.y, o, e.needXor).out = e.new

\* what the block operation of entry e writes changes with what B[offset] held
OldUsed(e) == \A o \in Tok \ {e.old} : block(e.x, e.y, o, e.needXor).out # e.new

\* C11 as stated: for version 0x13 and every t, t = 1 included, a block written
\* in the last pass r = t - 1 is the old B[offset] xor G(B[prev], B[ref]) and
\* depends on the old B[offset]; for version 0x10 it is G(B[prev], B[ref]) alone.
C11_LastPassAnyT ==
  \A c \in Calls : \A e \in Entries(c) :
    e.r = call[c].t - 1 =>
      /\ call[c].version = 19 =>
           e.new = Xor(e.old, Compress(e.x, e.y)) /\ OldUsed(e)
      /\ call[c].version = 16 =>
           e.new = Compress(e.x, e.y) /\ OldIgnored(e)

\* The cooperative call produces one block per step: each entry of its log is
\* the newest one in the state that follows the step.  The blocking call
\* produces all its blocks in one step; its log is compared with the log of
\* the cooperative call made with the same arguments.
EntriesOf(k) == {k.log[i] : i \in DOMAIN k.log}

Newest(c) == IF call[c].log = <<>> THEN {} ELSE {call[c].log[Len(call[c].log)]}

Shape(k) == <<k.mP, k.lanes, k.laneLen, k.segmentLen, k.t, k.version, k.type>>

SameLog ==
  (/\ Crypto(args[1]) = Crypto(args[2])
   /\ call[1].pc = "done" /\ call[2].pc = "done")
    => call[1].log = call[2].log /\ Shape(call[1]) = Shape(call[2])

\* the statement of C11 for entry e of a call with locals k
LastPass(k, e) ==
  e.r = k.t - 1 =>
    /\ (k.version = 19 /\ k.t >= 2) =>
         e.new = Xor(e.old, Compress(e.x, e.y)) /\ OldUsed(e)
    /\ (k.version = 19 /\ k.t = 1) =>
         e.old = 0 /\ e.new = Compress(e.x, e.y) /\ OldIgnored(e)
    /\ k.version = 16 =>
         e.new = Compress(e.x, e.y) /\ OldIgnored(e)

\* C11: for version 0x13 and t >= 2, a block written in the last pass is the
\* old B[offset] xor G(B[prev], B[ref]) and depends on the old B[offset]; for
\* version 0x13 and t = 1 the last pass is the first, B[offset] is still zero
\* and the block written is G(B[prev], B[ref]) whatever B[offset] held; for
\* version 0x10 it is G(B[prev], B[ref]) alone.
C11_LastPass ==
  /\ SameLog
  /\ \A c \in Calls : \A e \in Newest(c) : LastPass(call[c], e)

\* a call of version 0x13 with two passes has returned, and in its last pass
\* it wrote a block over a block that was not zero
C11_Witness ==
  \E c \in Calls :
    /\ call[c].pc = "done" /\ call[c].version = 19 /\ call[c].t = 2
    /\ \E e \in Entries(c) : e.r = 1 /\ e.old # 0 /\ e.new # Compress(e.x, e.y)

\* the address block that the two calls of block make of the input block and
\* the zero block of the triple a, whatever the address block held
Addresses(a) == Compress(Compress(InputBlock(a.input), a.zero), a.zero)

\* the statement of C12 for entry e of a call with locals k
NeedXor(k, e) ==
  /\ e.needXor = (e.r # 0 /\ k.version = 19)
  /\ e.new = IF e.r # 0 /\ k.version = 19 THEN Xor(e.old, Compress(e.x, e.y))
                                           ELSE Compress(e.x, e.y)
  /\ e.dataIndependent => e.after.address = Addresses(e.after)

\* C12: in both entry points every block operation on B in pass r uses
\* needXor = (r # 0 and version = 0x13): version 0x10 overwrites B[offset] in
\* every pass, version 0x13 overwrites in pass 0 and xors into B[offset] in
\* every later pass; the generation of the address block always overwrites.
C12_NeedXor ==
  /\ SameLog
  /\ \A c \in Calls : \A e \in Newest(c) : NeedXor(call[c], e)

\* both calls have returned, each of version 0x13 and after two passes, the
\* second xoring a block made from a regenerated address block into a block
\* that was not zero
C12_Witness ==
  /\ call[1].pc = "done" /\ call[2].pc = "done"
  /\ \A c \in Calls :
       /\ call[c].version = 19 /\ call[c].t = 2
       /\ \E e \in EntriesOf(call[c]) :
            e.r = 1 /\ e.needXor /\ e.old # 0 /\ e.dataIndependent /\ e.after # e.before

\* what processBlock makes of the pair J for the block of entry e
RefOf(k, e, J) ==
  RefBlock(e.l, e.r, e.s, e.index, k.laneLen, k.segmentLen, k.lanes, J[1], J[2])

\* the pair that entry e used, and the pairs of JChoices
Pairs(e) == JChoices \cup {e.J}

\* the references that processBlock makes of these pairs
RefsOf(k, e) == {RefOf(k, e, J) : J \in Pairs(e)}

\* the statement of C13 for entry e of a call with locals k
FirstSegment(k, e) ==
  (e.r = 0 /\ e.s = 0) =>
    /\ e.index >= 2
    /\ e.refLane = e.l
    /\ \A ref \in RefsOf(k, e) :
         /\ ref.refLane = e.l
         /\ ref.refBlock - k.laneLen * e.l \in 0 .. (e.index - 2)

\* C13: for every block produced in the first segment of the first pass
\* (r = 0, s = 0, index >= 2), for every type and every (J1, J2), refLane = l,
\* and the reference block is in lane l at a column strictly below index - 1.
C13_FirstSegmentSameLane ==
  /\ SameLog
  /\ \A c \in Calls : \A e \in Newest(c) : FirstSegment(call[c], e)

\* a call with two lanes is producing the first segment of its second lane
C13_Witness ==
  \E c \in Calls : \E e \in Newest(c) :
    call[c].lanes = 2 /\ e.r = 0 /\ e.s = 0 /\ e.l = 1 /\ e.refBlock = call[c].laneLen

\* the slice of block b in a call with locals k
SliceOf(k, b) == (b % k.laneLen) \div k.segmentLen

\* the statement of C15 for entry e of a call with locals k
OtherLane(k, e) ==
  /\ e.refLane # e.l => SliceOf(k, e.refBlock) # e.s
  /\ \A ref \in RefsOf(k, e) : ref.refLane # e.l => SliceOf(k, ref.refBlock) # e.s

\* C15: within any segment (r, s) a block produced in lane l never takes as
\* refBlock a block of slice s of another lane, for every (J1, J2): the blocks
\* of other lanes that a lane reads during the segment are not among those the
\* segment writes.
C15_NoCrossLaneInSegment ==
  /\ SameLog
  /\ \A c \in Calls : \A e \in Newest(c) : OtherLane(call[c], e)

\* a call with two lanes has produced, in the second pass, the first block of
\* a segment of its second lane from a block of its first lane
C15_Witness ==
  \E c \in Calls : \E e \in Newest(c) :
    call[c].lanes = 2 /\ e.r = 1 /\ e.index = 0 /\ e.l = 1 /\ e.refLane = 0

\* the statement of C17 for entry e of a call with locals k
PrevUsed(k, e) ==
  /\ e.offset = e.l * k.laneLen + e.s * k.segmentLen + e.index
  /\ e.prev = IF e.offset % k.laneLen = 0 THEN e.offset + k.laneLen - 1 ELSE e.offset - 1
  /\ e.prev \div k.laneLen = e.offset \div k.laneLen
  /\ (e.offset % k.laneLen = 0) = (e.prev % k.laneLen = k.laneLen - 1)

\* C17: for every produced block the prev that processBlock uses is
\* offset + laneLen - 1 when offset mod laneLen = 0 and offset - 1 otherwise,
\* with offset = l * laneLen + s * segmentLen + index: prev is in the lane of
\* offset, and is the last column of the lane only when offset is column 0.
C17_PrevInLane ==
  /\ SameLog
  /\ \A c \in Calls : \A e \in Newest(c) : PrevUsed(call[c], e)

\* in the second pass a call has produced column 0 of its second lane from the
\* last column of the lane, and then column 1, for which the prev handed to
\* processBlock is not the one it uses
C17_Witness ==
  \E c \in Calls : \E e \in Newest(c) :
    /\ e.r = 1 /\ e.l = 1 /\ e.s = 0 /\ e.index = 1 /\ e.given # e.prev
    /\ call[c].log[Len(call[c].log) - 1].prev = 2 * call[c].laneLen - 1

(***************************************************************************)
(* Properties of the block operations, long segments included (under       *)
(* SpecLong)                                                               *)
(***************************************************************************)
\* the statement of C16 for entry e of a call with locals k
PairSource(k, e) ==
  LET i128 == e.index % 128
      first == e.r = 0 /\ e.s = 0
  IN  /\ e.dataIndependent =
           (k.type = AT.Argon2i \/ (k.type = AT.Argon2id /\ e.r = 0 /\ e.s < 2))
      /\ e.dataIndependent =>
           /\ e.J = <<Word(e.after.address, 2 * i128), Word(e.after.address, 2 * i128 + 1)>>
           /\ e.after.input = [w0 |-> e.r, w2 |-> e.l, w4 |-> e.s, w6 |-> k.mP, w8 |-> k.t,
                               w10 |-> k.type, w12 |-> (e.index \div 128) + 1]
           /\ e.after.address = Addresses(e.after)
           /\ e.after.zero = 0
           /\ (e.after # e.before) = (i128 = 0)
           /\ i128 = 0 => e.before.input.w12 = e.index \div 128
           /\ (first /\ e.index = 2) => e.before.input.w12 = 1
      /\ ~e.dataIndependent =>
           /\ e.J = <<Word(e.x, 0), Word(e.x, 1)>>
           /\ e.after = e.before

\* C16: in a segment with type = Argon2i, or type = Argon2id with r = 0 and
\* s < 2, the pair (J1, J2) for block index is words 2 * (index mod 128) and
\* 2 * (index mod 128) + 1 of the address block, which was generated with the
\* input counter floor(index / 128) + 1: the counter starts from 0 in each
\* (r, s, l), the block is regenerated once per 128 indices, and primed once
\* before index 2 when r = 0 and s = 0.  In every other segment the pair is the
\* first two words of B[prev], and producing the block leaves the address
\* triple as it is.
C16_PairSource ==
  /\ SameLog
  /\ \A c \in Calls : \A e \in Newest(c) : PairSource(call[c], e)

\* a call has produced the block of index 128 of a segment from the second
\* address block of the segment, and has used all the pairs of the first
C16_Witness ==
  \E c \in Calls : \E e \in Newest(c) :
    /\ e.dataIndependent /\ e.index = 128 /\ e.s = 1
    /\ e.after # e.before /\ e.after.input.w12 = 2
    /\ call[c].log[Len(call[c].log) - 1].index = 127
    /\ call[c].log[Len(call[c].log) - 1].after.input.w12 = 1

\* the statement of C18 for the reference ref that a pair makes for entry e of
\* a call with locals k
InRange(k, e, ref) ==
  LET area == indexAlphaArea(e.r, e.s, k.laneLen, k.segmentLen, e.index, ref.refLane = e.l)
      refPos == ref.refBlock - k.laneLen * ref.refLane
  IN  /\ area >= 1
      /\ \A rel \in {indexAlphaRel(area, ref.J[1])} : 0 <= rel /\ rel <= area - 1
      /\ ref.refLane \in 0 .. (k.lanes - 1)
      /\ refPos \in 0 .. (k.laneLen - 1)
      /\ ref.refBlock \in 0 .. (k.mP - 1)

\* C18: during the fill phase, for every (J1, J2): the area that indexAlpha
\* computes is at least 1, the relative position is in 0 .. area - 1, refPos is
\* in 0 .. laneLen - 1, and offset, prev and refBlock are in 0 .. m' - 1: no
\* block access is outside B, and the call is not in error.  The pairs are
\* tried on the entries of the cooperative call, which are those of the
\* blocking call.
C18_IndicesInRange ==
  /\ SameLog
  /\ \A c \in Calls : \A e \in Newest(c) :
       /\ call[c].err = NoError
       /\ DOMAIN call[c].B = 0 .. (call[c].mP - 1)
       /\ e.offset \in 0 .. (call[c].mP - 1)
       /\ e.prev \in 0 .. (call[c].mP - 1)
       /\ e.refBlock \in 0 .. (call[c].mP - 1)
       /\ InRange(call[c], e, [refLane |-> e.refLane, refBlock |-> e.refBlock, J |-> e.J])
  /\ \A e \in Newest(2) : \A ref \in RefsOf(call[2], e) : InRange(call[2], e, ref)

\* a call on a long segment has taken the reference of the last block of its
\* last segment from the far end of the reference set
C18_Witness ==
  \E c \in Calls : \E e \in Newest(c) :
    /\ call[c].segmentLen = LongSegmentLen
    /\ e.s = 3 /\ e.index = LongSegmentLen - 1
    /\ \E ref \in RefsOf(call[c], e) : ref.refBlock = e.offset - 2
    /\ \E ref \in RefsOf(call[c], e) : ref.refBlock = 0

(***************************************************************************)
(* Properties of interleaved calls (under SpecPair)                        *)
(***************************************************************************)
\* what the call with the arguments of call c returns when it runs alone
Alone(c) == argon2Call(args[c], 0)

\* C20: at every suspension point of a cooperative call, A2_BUF is all zero
\* and so is the zero block of the call's address triple; and however two
\* calls are interleaved at their suspension points, each does the block
\* operations and returns the output of the call that runs alone.
C20_Interleaving ==
  \A c \in Calls :
    /\ call[c].pc = "await" => (A2_BUF = 0 /\ call[c].address.zero = 0)
    /\ call[c].pc = "done" =>
         /\ call[c].out = Alone(c).out
         /\ call[c].ops = Alone(c).ops
         /\ call[c].B = Alone(c).B

\* two cooperative calls of different types are both suspended, each with
\* blocks produced and blocks to produce
C20_Witness ==
  /\ args[1].type # args[2].type
  /\ \A c \in Calls :
       /\ call[c].pc = "await"
       /\ Len(call[c].log) \in 2 .. (Len(Alone(c).log) - 2)

(***************************************************************************)
(* Termination and suspensions (under SpecLive)                            *)
(***************************************************************************)
\* the blocks a call produces: t * m' less the two seeded blocks of each lane
BlocksProduced(k) == k.t * k.mP - 2 * k.p

Accepted(k) == k.pc \notin {"new", "error"}

\* a step of call c that leaves it waiting at line 767
Suspends(c) == call'[c] # call[c] /\ call'[c].pc = "await"

Terminates == \A c \in Calls : Accepted(call[c]) ~> (call[c].pc = "done")

OncePerBlock ==
  [][\A c \in Calls :
       Suspends(c) => /\ call[c].pc = "body"
                      /\ Len(call'[c].log) = Len(call[c].log) + 1
                      /\ Len(call'[c].log) <= BlocksProduced(call'[c])]_vars

AllBlocks ==
  [](\A c \in Calls :
       call[c].pc = "done" => /\ Len(call[c].log) = BlocksProduced(call[c])
                              /\ call[c].out.length = call[c].dkLen)

\* C21: when the host resumes every call that waits, a cooperative call whose
\* parameters are accepted returns its output, whatever the clock reads
\* (going back, standing still) and whatever asyncTick is (0 included); every
\* step that suspends it has produced one more block, and it has produced
\* t * m' - 2 * p blocks when it returns, so that it suspends at most that
\* many times.
C21_Termination == Terminates /\ OncePerBlock /\ AllBlocks

\* a call with asyncTick 0 and MaxT passes has returned, after it suspended on
\* a clock that stood still at its last block
C21_Witness ==
  \E c \in Calls :
    /\ call[c].pc = "done"
    /\ call[c].asyncTick = 0
    /\ call[c].t = MaxT
    /\ call[c].diff = 0
    /\ Len(call[c].log) = BlocksProduced(call[c])

=============================================================================
